---- MODULE Spec2Model ----
(***************************************************************************)
(* The reaper state machine of lib/reaper-stream.js (ReaperFSM, driven by  *)
(* ReaperStream), with the record store (redis), the VM fetcher (VMAPI)    *)
(* and the output stream as its environment.                               *)
(*                                                                         *)
(* One action per callback, timer or signal of the machine.  A state       *)
(* function's entry code is part of the transition that enters the state.  *)
(* state_next has no callback of its own: it runs inside the gotoState     *)
(* call that enters it, so while state = "next" no other action is         *)
(* enabled.                                                                *)
(***************************************************************************)
EXTENDS Integers, Sequences, FiniteSets, Bags, TLC

VARIABLES
    state,        \* mooremachine state of the FSM
    remaining,    \* this.remaining: worklist of vm uuids
    vmuuid,       \* this.vmuuid
    retries,      \* this.retries
    onTimer,      \* this.onTimer
    sleep,        \* this.sleep, in units of 1/Unit ms
    listCursor,   \* this.listCursor: 0 for '0', else the cursor of the reply
    reapTime,     \* this.reapTime, in thousandths of a second
    armed,        \* the delay of the S.timeout of sleep or sleep_full, else 0
    callbacks,    \* S.callback closures not yet called: a bag of [op, valid]
    store,        \* redis: uuid -> hash at key vm:<uuid>, for the keys held
    extraKey,     \* redis holds the key vm:a:zz
    lateKept,     \* replies may come later than the delay after their timeout
    out,          \* what the last step sent to VMAPI, the stream and redis,
                  \* and the late reply it took
    \* history of the run, read by the properties only
    seen,         \* what the reads of the current attempt returned
    entry,        \* tallies of the current worklist entry
    cycle,        \* tallies of the current reap cycle
    deleted,      \* the uuids whose key the reaper has deleted
    blocked,      \* the last push returned false and no timer or wake since
    run           \* the current run of like throttle adjustments

history == <<seen, entry, cycle, deleted, blocked, run>>
env == <<extraKey, lateKept>>

-----------------------------------------------------------------------------
(* Bounds of the model *)

\* binary fraction digits kept of this.sleep (self.sleep /= 2 leaves integers)
FracBits == 2
\* longest worklist
MaxQueue == 2
\* most keys in one reply of the scan
MaxPage == 2
\* longest run of like throttle adjustments recorded as one run
MaxRun == 7
\* most replies still to come to closures of states that were left
MaxLate == 2

Unit == 2 ^ FracBits

-----------------------------------------------------------------------------
(* Program constants *)

DEFAULT_REAP_TIME == 3600
RetryBudget == 3
minSleep == 100 * Unit
initSleep == 100 * Unit
maxSleep == 10000 * Unit

-----------------------------------------------------------------------------
(* Environment values *)

Ids == {"a", "b"}
Undefined == "undefined"
\* a redis reply or a hash field is {} for null (the field is absent) and
\* {v} for the value v
Null == {}
Val(reply) == CHOOSE v \in reply : TRUE

\* (new Date()).getTime() as a last_visit reply may find it, in ms: two hours
\* after the epoch, half a second later, four hours after the epoch.  It is
\* the wall clock: no timer of the machine sets it, and it may be set back.
ClockMs == {7200000, 7200500, 14400000}

\* Math.round(ms / 1000)
now(ms) == (ms + 500) \div 1000

\* the arguments setReapTime is called with, in thousandths of a second:
\* 0.5, 86399 and 86400; the last one fails its assertion
ReapTimeArgs == {500, 86399000, 86400000}

DigitChars == <<"0", "1", "2", "3", "4", "5", "6", "7", "8", "9">>
\* a number is {n}; NaN is {}
NaN == {}

DigitVal(c) == (CHOOSE i \in 1..10 : DigitChars[i] = c) - 1

IsDigit(c) == \E i \in 1..10 : DigitChars[i] = c

RECURSIVE ParseDigits(_, _)
ParseDigits(s, acc) ==
    IF s = <<>> \/ ~IsDigit(Head(s)) THEN acc
    ELSE ParseDigits(Tail(s), acc * 10 + DigitVal(Head(s)))

\* A character is a string of length one; a character that a string of this
\* module cannot hold is the string that names its code point.
\* WhiteSpace and LineTerminator of StrWhiteSpaceChar, which parseInt skips:
\* TAB, VT, FF, SP, NBSP, ZWNBSP, the space separators (Zs), LF, CR, LS, PS
WhiteSpace ==
    {"\t", "U+000B", "\f", " ", "U+00A0", "U+FEFF",
     "U+1680", "U+2000", "U+2001", "U+2002", "U+2003", "U+2004", "U+2005",
     "U+2006", "U+2007", "U+2008", "U+2009", "U+200A", "U+202F", "U+205F",
     "U+3000",
     "\n", "\r", "U+2028", "U+2029"}

RECURSIVE TrimStart(_)
TrimStart(s) ==
    IF s # <<>> /\ Head(s) \in WhiteSpace THEN TrimStart(Tail(s)) ELSE s

\* parseInt(val, 10) of a string held as a sequence of characters: leading
\* white space is skipped, a sign is taken, then the digits up to the first
\* character that is none; NaN when there is no digit
parseInt(s) ==
    LET t == TrimStart(s)
        signed == t # <<>> /\ Head(t) \in {"+", "-"}
        digits == IF signed THEN Tail(t) ELSE t
    IN IF digits = <<>> \/ ~IsDigit(Head(digits)) THEN NaN
       ELSE IF signed /\ Head(t) = "-" THEN {0 - ParseDigits(digits, 0)}
       ELSE {ParseDigits(digits, 0)}

RECURSIVE ToDigits(_)
\* the decimal string of a timestamp, as the event path stores it
ToDigits(n) ==
    IF n < 10 THEN <<DigitChars[n + 1]>>
    ELSE Append(ToDigits(n \div 10), DigitChars[(n % 10) + 1])

EmptyRecs == "{}"
SomeRecs == "{\"x\":1}"

\* last_visit as the store may hold it at construction: absent, long ago (at
\* the epoch), one hour after the epoch, a time after a vertical tab, and a
\* string that is no number
LongAgo == {ToDigits(0)}
Padded == {<<"U+000B", "7">>}
NotANumber == {<<"a", "b", "c">>}
LastVisitVals ==
    {Null, LongAgo, {ToDigits(DEFAULT_REAP_TIME)}, Padded, NotANumber}
ReapedVals == {Null, {"yes"}}
LastRecsVals == {Null, {EmptyRecs}, {SomeRecs}}

NoFields == [last_visit |-> Null, reaped |-> Null, last_recs |-> Null]

\* a hash with no field is no key
Recs == [last_visit : LastVisitVals, reaped : ReapedVals,
         last_recs : LastRecsVals] \ {NoFields}

\* redis HGET key field
hget(id, field) == IF id \in DOMAIN store THEN store[id][field] ELSE Null

\* redis HSET key field value
hset(st, id, field, val) ==
    [i \in DOMAIN st \cup {id} |->
        IF i = id
        THEN [(IF id \in DOMAIN st THEN st[id] ELSE NoFields)
                 EXCEPT ![field] = {val}]
        ELSE st[i]]

\* redis DEL key
del(st, id) == [i \in DOMAIN st \ {id} |-> st[i]]

\* the keys that vm:* matches, each split at ':'; the key vm:a:zz is no vm
\* record
ScanKeys == {<<"vm", "a">>, <<"vm", "a", "zz">>, <<"vm", "b">>}

KeyExists(k) == IF Len(k) = 2 THEN k[2] \in DOMAIN store ELSE extraKey

\* resp[0] of a reply of SCAN: 0 for '0', which ends the pass, or a cursor to
\* go on from
Cursors == {0, 1, 5}

\* resp[1] of a reply of SCAN cursor MATCH vm:*: keys that exist, none or
\* some, in any order, a key as often as redis returns it
ScanReplies ==
    UNION {[1..n -> {k \in ScanKeys : KeyExists(k)}] : n \in 0..MaxPage}

RECURSIVE CandidatesAnyLength(_)
\* the loop without its test of parts.length
CandidatesAnyLength(keys) ==
    IF keys = <<>> THEN <<>>
    ELSE LET parts == Head(keys)
         IN IF parts[1] = "vm"
            THEN <<parts[2]>> \o CandidatesAnyLength(Tail(keys))
            ELSE CandidatesAnyLength(Tail(keys))

RECURSIVE Candidates(_)
\* the loop of state_listVms over the keys of a reply: the uuids it pushes
Candidates(keys) ==
    IF keys = <<>> THEN <<>>
    ELSE LET parts == Head(keys)
         IN IF Len(parts) = 2 /\ parts[1] = "vm"
            THEN <<parts[2]>> \o Candidates(Tail(keys))
            ELSE Candidates(Tail(keys))

VmStates == {"running", "stopped", "destroyed", "failed", "incomplete"}
\* what fetch hands to its callback: the vm object of VMAPI tagged origin
\* reaper; its field destroyed is absent ({}), or is {v} for the value v
VmObjs ==
    [uuid : Ids, state : VmStates, destroyed : {{}, {FALSE}, {TRUE}},
     origin : {"reaper"}]

NoOut == [fetch |-> {}, push |-> {}, ret |-> TRUE, hset |-> {}, del |-> {},
          late |-> {}]

\* the test without its last disjunct
TerminalButIncomplete(obj) ==
    obj.state = "destroyed" \/ obj.destroyed = {TRUE} \/ obj.state = "failed"

\* the test of state_fetchAndPush on the fetched object
Terminal(obj) ==
    obj.state = "destroyed" \/ obj.destroyed = {TRUE} \/ obj.state = "failed"
        \/ obj.state = "incomplete"

\* the comparison made inclusive
OverdueInclusive(t, lastVisited) ==
    lastVisited # NaN /\ (t - Val(lastVisited)) * 1000 >= reapTime

\* now - lastVisited > self.reapTime at the clock reading t (in seconds),
\* false when lastVisited is NaN
Overdue(t, lastVisited) ==
    lastVisited # NaN /\ (t - Val(lastVisited)) * 1000 > reapTime

\* self.sleep *= 2 without the cap
DoubleUncapped(s) == s * 2

\* self.sleep *= 2, capped at maxSleep
Double(s) == IF s * 2 > maxSleep THEN maxSleep ELSE s * 2

\* self.sleep /= 2 without the floor
HalveUnfloored(s) == s \div 2

\* self.sleep /= 2, floored at minSleep
Halve(s) == IF s \div 2 < minSleep THEN minSleep ELSE s \div 2

-----------------------------------------------------------------------------
(* S.callback, S.timeout and S.gotoState of mooremachine *)

Ops == {"scan", "last_visit", "reaped", "last_recs", "fetch"}

\* the closure S.callback makes for the reply to op, its handle valid
Callback(op) == [op |-> op, valid |-> TRUE]

\* cbs and one more closure for op
With(cbs, op) == cbs (+) SetToBag({Callback(op)})

\* the closure S.callback made for op runs its function: its handle is valid
Called(op) == BagIn(Callback(op), callbacks)

\* the closures of cbs whose handle is no longer valid, each as often as held
Late(cbs) == [c \in {d \in BagToSet(cbs) : ~d.valid} |-> cbs[c]]

\* the callbacks left when the state is left from a callback cb of its handle
After(cb) == Late(callbacks (-) SetToBag({cb}))

Outstanding == {c \in BagToSet(callbacks) : c.valid}

\* the closures a timer may leave to be called later: the replies still to
\* come are bounded, any other reply never comes
MayKeep ==
    {kept \in SUBSET Outstanding :
        BagCardinality(Late(callbacks)) + Cardinality(kept) <= MaxLate}

\* the callbacks left when a timer or a signal leaves the state: the closures
\* of the handle are invalid from now on; those in `kept` are still called
Disconnect(kept) ==
    Late(callbacks) (+) SetToBag({[op |-> c.op, valid |-> FALSE] : c \in kept})

\* Unless lateKept, a reply that comes after its state's timeout comes
\* during the delay of listError or checkError that follows the timeout, or
\* never: the closures still uncalled when that delay ends are never called.
Lost(cbs) == IF lateKept THEN cbs ELSE cbs (-) Late(cbs)

-----------------------------------------------------------------------------
(* History *)

Unread == [st |-> "unread", val |-> {}]
Failed == [st |-> "error", val |-> {}]
Reply(val) == [st |-> "ok", val |-> val]

\* fresh: the test of line 208 was false for the last_visit reply
NoSeen == [last_visit |-> Unread, reaped |-> Unread, last_recs |-> Unread,
           fresh |-> FALSE]

\* the else branch of line 208 is taken for the reply val at the clock
\* reading t: val is no number, or a time no more than reapTime before t
Fresh(t, val) ==
    /\ val # Null
    /\ \/ parseInt(Val(val)) = NaN
       \/ (t - Val(parseInt(Val(val)))) * 1000 <= reapTime

NoEntry == [tries |-> 0, fails |-> 0, fetches |-> 0, pushes |-> 0,
            writes |-> 0]

\* a cycle's tallies; fetches, pushes and due are kept for as long as no
\* store operation and no fetch of the cycle has failed or timed out; pass
\* is the uuids listed by the scan pass under way, and once holds for as long
\* as no pass of the cycle has listed a uuid twice
NewCycle == [ok |-> TRUE, listed |-> FALSE, once |-> TRUE, pass |-> {},
             due |-> {},
             fetches |-> [i \in Ids |-> 0], pushes |-> [i \in Ids |-> 0]]

FailCycle(c) ==
    [NewCycle EXCEPT !.ok = FALSE, !.listed = c.listed, !.once = c.once]

\* the uuids ids come twice, or have come before in the pass
Repeats(ids, pass) ==
    \/ \E i, j \in DOMAIN ids : i # j /\ ids[i] = ids[j]
    \/ \E i \in DOMAIN ids : ids[i] \in pass

\* the tallies after a reply of the scan with these keys and this cursor;
\* the keys of vm records are those of two parts
Listed(c, keys, cursor) ==
    LET vms == SelectSeq(keys, LAMBDA k : Len(k) = 2)
        ids == [i \in DOMAIN vms |-> vms[i][2]]
    IN [c EXCEPT !.listed = @ \/ ids # <<>>,
                 !.once = @ /\ ~Repeats(ids, c.pass),
                 !.pass = IF cursor = 0 THEN {}
                          ELSE @ \cup {ids[i] : i \in DOMAIN ids}]

CountFetch(c, id, due) ==
    IF c.ok
    THEN [c EXCEPT !.fetches[id] = @ + 1,
                   !.due = IF due THEN @ \cup {id} ELSE @]
    ELSE c

CountPush(c, id) == IF c.ok THEN [c EXCEPT !.pushes[id] = @ + 1] ELSE c

\* Runs of throttle adjustments are recorded when the initial state turns the
\* record on.  A run is the adjustments of one kind ("full": the sleep_full
\* timer, "wake": a wake in sleep) since the last one of the other kind,
\* base the throttle before the first of them and n their number.
NoRun == [kind |-> "off", base |-> 0, n |-> 0]

StartRun == [kind |-> "none", base |-> 0, n |-> 0]

Adjusted(r, kind, before) ==
    IF r.kind = "off" THEN r
    ELSE IF r.kind = kind /\ r.n < MaxRun THEN [r EXCEPT !.n = @ + 1]
    ELSE [kind |-> kind, base |-> before, n |-> 1]

\* the reads that were outstanding when a timeout fired
TimedOut(s, cbs) ==
    [f \in DOMAIN s |-> IF \E c \in cbs : c.op = f THEN Failed ELSE s[f]]

-----------------------------------------------------------------------------
(* Initial state: ReaperFSM constructor, FSM.call(this, 'idle') *)

\* The records vm:a may start as: every record last visited long ago, and one
\* record for each other last_visit.  vm:b is absent or overdue and unmarked.
InitRecsA ==
    {r \in Recs : r.last_visit = LongAgo
                    \/ (r.last_visit \in LastVisitVals /\ r.reaped = Null
                           /\ r.last_recs = {SomeRecs})}

InitRecsB == {[last_visit |-> LongAgo, reaped |-> Null,
               last_recs |-> {SomeRecs}]}

InitStores ==
    {st \in UNION {[D -> Recs] : D \in SUBSET Ids} :
        /\ "a" \in DOMAIN st => st["a"] \in InitRecsA
        /\ "b" \in DOMAIN st =>
              /\ st["b"] \in InitRecsB
              /\ "a" \in DOMAIN st => st["a"].last_visit = LongAgo
                                        /\ st["a"].last_recs # Null}

\* the fields the constructor sets, and the history of no run yet
Constructed ==
    /\ state = "idle"
    /\ remaining = <<>>
    /\ vmuuid = Undefined
    /\ retries = RetryBudget
    /\ onTimer = FALSE
    /\ sleep = initSleep
    /\ listCursor = 0
    /\ reapTime = DEFAULT_REAP_TIME * 1000
    /\ armed = 0
    /\ callbacks = EmptyBag
    /\ out = NoOut
    /\ seen = NoSeen
    /\ entry = NoEntry
    /\ cycle = NewCycle
    /\ deleted = {}
    /\ blocked = FALSE

\* the key that is no vm record is there, or the store is empty
Init ==
    /\ Constructed
    /\ store \in InitStores
    /\ extraKey \in {DOMAIN store # {}, TRUE}
    /\ lateKept = FALSE
    /\ run = NoRun

\* both vms in the store, overdue, one marked and without last_recs, with
\* the key that is no vm record
InitLive ==
    /\ Constructed
    /\ store \in {st \in InitStores :
                    /\ DOMAIN st = Ids
                    /\ st["a"].reaped # Null /\ st["a"].last_recs = {EmptyRecs}}
    /\ extraKey = TRUE
    /\ lateKept = FALSE
    /\ run = NoRun

\* one overdue, unmarked vm, and the runs of throttle adjustments recorded
InitThrottle ==
    /\ Constructed
    /\ store = [i \in {"a"} |-> [last_visit |-> LongAgo, reaped |-> Null,
                                  last_recs |-> Null]]
    /\ extraKey = TRUE
    /\ lateKept = FALSE
    /\ run = StartRun

\* one overdue, unmarked vm, and replies that may come at any later time
InitLate ==
    /\ Constructed
    /\ store = [i \in {"a"} |-> [last_visit |-> LongAgo, reaped |-> Null,
                                  last_recs |-> {SomeRecs}]]
    /\ extraKey = TRUE
    /\ lateKept = TRUE
    /\ run = NoRun

-----------------------------------------------------------------------------
(* Signals *)

\* the listener of state_idle left installed in every state
OnStartAlways ==
    /\ state' = "listVms"
    /\ callbacks' = With(callbacks, "scan")
    /\ cycle' = NewCycle

\* the startAsserted listener of state_idle
OnStartAsserted ==
    IF state = "idle"
    THEN /\ state' = "listVms"
         /\ callbacks' = With(callbacks, "scan")
         /\ cycle' = NewCycle
    ELSE UNCHANGED <<state, callbacks, cycle>>

\* the listener of state_sleep_full installed in state_sleep as well
OnWakeAdvances ==
    IF state \in {"sleep_full", "sleep"}
    THEN /\ state' = "next"
         /\ armed' = 0
         /\ blocked' = FALSE
         /\ UNCHANGED <<sleep, run>>
    ELSE UNCHANGED <<state, sleep, armed, blocked, run>>

\* the listener of state_sleep_full adjusting the throttle as well
OnWakeHalvesWhenFull ==
    CASE state = "sleep_full" ->
            /\ state' = "next"
            /\ armed' = 0
            /\ blocked' = FALSE
            /\ sleep' = Halve(sleep)
            /\ UNCHANGED run
      [] state = "sleep" ->
            /\ sleep' = Halve(sleep)
            /\ run' = Adjusted(run, "wake", sleep)
            /\ UNCHANGED <<state, armed, blocked>>
      [] OTHER -> UNCHANGED <<state, sleep, armed, blocked, run>>

\* the wakeAsserted listeners of state_sleep_full and state_sleep
OnWakeAsserted ==
    CASE state = "sleep_full" ->
            /\ state' = "next"
            /\ armed' = 0
            /\ blocked' = FALSE
            /\ UNCHANGED <<sleep, run>>
      [] state = "sleep" ->
            /\ sleep' = Halve(sleep)
            /\ run' = Adjusted(run, "wake", sleep)
            /\ UNCHANGED <<state, armed, blocked>>
      [] OTHER -> UNCHANGED <<state, sleep, armed, blocked, run>>

\* ReaperFSM.prototype.start, ReaperStream.prototype.start
Start ==
    /\ state # "next"
    /\ onTimer' = TRUE
    /\ OnStartAsserted
    /\ out' = NoOut
    /\ UNCHANGED <<remaining, vmuuid, retries, sleep, listCursor, store,
                   seen, entry, deleted, blocked, run>>
    /\ UNCHANGED <<env, armed, reapTime>>

\* ReaperFSM.prototype.wake
Wake ==
    /\ state # "next"
    /\ OnWakeAsserted
    /\ out' = NoOut
    /\ UNCHANGED <<remaining, vmuuid, retries, onTimer, listCursor, callbacks,
                   store, seen, entry, cycle, deleted>>
    /\ UNCHANGED <<env, reapTime>>

\* ReaperStream.prototype._read: fsm.start() and then fsm.wake()
Read ==
    /\ state # "next"
    /\ onTimer' = TRUE
    /\ IF state = "idle"
       THEN OnStartAsserted /\ UNCHANGED <<sleep, armed, blocked, run>>
       ELSE OnWakeAsserted /\ UNCHANGED <<callbacks, cycle>>
    /\ out' = NoOut
    /\ UNCHANGED <<remaining, vmuuid, retries, listCursor, store, seen, entry,
                   deleted>>
    /\ UNCHANGED <<env, reapTime>>

-----------------------------------------------------------------------------
(* state_idle *)

\* the reapTime timer of state_idle
IdleTimer ==
    /\ state = "idle"
    /\ onTimer
    /\ state' = "listVms"
    /\ callbacks' = With(callbacks, "scan")
    /\ cycle' = NewCycle
    /\ out' = NoOut
    /\ UNCHANGED <<remaining, vmuuid, retries, onTimer, sleep, listCursor,
                   store, seen, entry, deleted, blocked, run>>
    /\ UNCHANGED <<env, armed, reapTime>>

-----------------------------------------------------------------------------
(* state_listVms, state_listError *)

\* the worklist q is no longer than the longest one of the model
Bounded(q) == Len(q) <= MaxQueue

\* the callback of redis.scan
ListVmsReply ==
    /\ state = "listVms"
    /\ Called("scan")
    /\ \/ /\ state' = "listError"
          /\ listCursor' = 0
          /\ callbacks' = After(Callback("scan"))
          /\ cycle' = FailCycle(cycle)
          /\ UNCHANGED remaining
       \/ \E cursor \in Cursors, keys \in ScanReplies :
               /\ Bounded(remaining \o Candidates(keys))
               /\ listCursor' = cursor
               /\ remaining' = remaining \o Candidates(keys)
               /\ cycle' = Listed(cycle, keys, cursor)
               /\ IF cursor = 0
                  THEN /\ state' = "next"
                       /\ callbacks' = After(Callback("scan"))
                  ELSE /\ state' = "listVms"
                       /\ callbacks' = With(After(Callback("scan")), "scan")
    /\ out' = NoOut
    /\ UNCHANGED <<vmuuid, retries, onTimer, sleep, store, seen, entry,
                   deleted, blocked, run>>
    /\ UNCHANGED <<env, armed, reapTime>>

\* the 10 s timeout of state_listVms
ListVmsTimeout ==
    /\ state = "listVms"
    /\ \E kept \in MayKeep : callbacks' = Disconnect(kept)
    /\ state' = "listError"
    /\ listCursor' = 0
    /\ cycle' = FailCycle(cycle)
    /\ out' = NoOut
    /\ UNCHANGED <<remaining, vmuuid, retries, onTimer, sleep, store, seen,
                   entry, deleted, blocked, run>>
    /\ UNCHANGED <<env, armed, reapTime>>

\* the 1 s timer of state_listError
ListErrorTimer ==
    /\ state = "listError"
    /\ state' = "listVms"
    /\ callbacks' = With(Lost(callbacks), "scan")
    /\ out' = NoOut
    /\ UNCHANGED <<remaining, vmuuid, retries, onTimer, sleep, listCursor,
                   store, history>>
    /\ UNCHANGED <<env, armed, reapTime>>

-----------------------------------------------------------------------------
(* state_next *)

\* the test with the last entry left behind
HasMoreThanOne(q) == Len(q) > 1

\* if (this.remaining.length > 0)
HasWork(q) == Len(q) > 0

\* what remaining.pop() would return
Last(q) == q[Len(q)]

\* what remaining.shift() returns
First(q) == Head(q)

\* the head read and left on the worklist
Unshifted(q) == q

\* what remaining.shift() leaves
Shifted(q) == Tail(q)

StateNext ==
    /\ state = "next"
    /\ retries' = RetryBudget
    /\ seen' = NoSeen
    /\ IF HasWork(remaining)
       THEN /\ vmuuid' = First(remaining)
            /\ remaining' = Shifted(remaining)
            /\ state' = "checkLastVisited"
            /\ callbacks' = With(callbacks, "last_visit")
            /\ entry' = [NoEntry EXCEPT !.tries = 1]
            /\ UNCHANGED listCursor
       ELSE /\ state' = "idle"
            /\ listCursor' = 0
            /\ entry' = NoEntry
            /\ UNCHANGED <<vmuuid, remaining, callbacks>>
    /\ out' = NoOut
    /\ UNCHANGED <<onTimer, sleep, store, cycle, deleted, blocked, run>>
    /\ UNCHANGED <<env, armed, reapTime>>

-----------------------------------------------------------------------------
(* state_checkError, entered from the three checking states *)

\* gotoState('checkError'): the entry code of state_checkError decrements
\* the retry counter
ToCheckError(cbs) ==
    /\ state' = "checkError"
    /\ retries' = retries - 1
    /\ callbacks' = cbs
    /\ entry' = [entry EXCEPT !.fails = @ + 1]
    /\ cycle' = FailCycle(cycle)

\* the test made inclusive
MayRetryAtZero(r) == r >= 0

\* if (self.retries > 0)
MayRetry(r) == r > 0

\* the 1 s and 5 s timers of state_checkError
CheckErrorTimer ==
    /\ state = "checkError"
    /\ IF MayRetry(retries)
       THEN /\ state' = "checkLastVisited"
            /\ callbacks' = With(Lost(callbacks), "last_visit")
            /\ entry' = [entry EXCEPT !.tries = @ + 1]
            /\ seen' = NoSeen
       ELSE /\ state' = "next"
            /\ callbacks' = Lost(callbacks)
            /\ UNCHANGED <<entry, seen>>
    /\ out' = NoOut
    /\ UNCHANGED <<remaining, vmuuid, retries, onTimer, sleep, listCursor,
                   store, cycle, deleted, blocked, run>>
    /\ UNCHANGED <<env, armed, reapTime>>

\* the timer of checkReaped cleared when its first read has replied
CheckTimeoutOfFirstRead ==
    /\ state \in {"checkLastVisited", "checkReaped", "fetchAndPush"}
    /\ ~Called("last_recs")
    /\ \E kept \in MayKeep : ToCheckError(Disconnect(kept))
    /\ seen' = TimedOut(seen, Outstanding)
    /\ out' = NoOut
    /\ UNCHANGED <<remaining, vmuuid, onTimer, sleep, listCursor, store,
                   deleted, blocked, run>>
    /\ UNCHANGED <<env, armed, reapTime>>

\* the timeout of checkLastVisited, checkReaped or fetchAndPush
CheckTimeout ==
    /\ state \in {"checkLastVisited", "checkReaped", "fetchAndPush"}
    /\ \E kept \in MayKeep : ToCheckError(Disconnect(kept))
    /\ seen' = TimedOut(seen, Outstanding)
    /\ out' = NoOut
    /\ UNCHANGED <<remaining, vmuuid, onTimer, sleep, listCursor, store,
                   deleted, blocked, run>>
    /\ UNCHANGED <<env, armed, reapTime>>

-----------------------------------------------------------------------------
(* state_checkLastVisited *)

\* the callback of hget(..., 'last_visit')
CheckLastVisitedReply ==
    /\ state = "checkLastVisited"
    /\ Called("last_visit")
    /\ LET cbs == After(Callback("last_visit"))
           val == hget(vmuuid, "last_visit")
       IN \/ /\ ToCheckError(cbs)
             /\ seen' = [seen EXCEPT !.last_visit = Failed]
          \/ \E ms \in ClockMs :
               /\ seen' = [seen EXCEPT !.last_visit = Reply(val),
                                       !.fresh = Fresh(now(ms), val)]
               /\ IF val = Null
                  THEN /\ state' = "next"
                       /\ callbacks' = cbs
                  ELSE IF Overdue(now(ms), parseInt(Val(val)))
                  THEN /\ state' = "checkReaped"
                       /\ callbacks' = With(cbs, "reaped")
                  ELSE /\ state' = "next"
                       /\ callbacks' = cbs
               /\ UNCHANGED <<retries, entry, cycle>>
    /\ out' = NoOut
    /\ UNCHANGED <<remaining, vmuuid, onTimer, sleep, listCursor, store,
                   deleted, blocked, run>>
    /\ UNCHANGED <<env, armed, reapTime>>

-----------------------------------------------------------------------------
(* state_checkReaped *)

\* gotoState('fetchAndPush'): the entry code calls this.fetch
ToFetchAndPush(cbs, due) ==
    /\ state' = "fetchAndPush"
    /\ callbacks' = With(cbs, "fetch")
    /\ out' = [NoOut EXCEPT !.fetch = {vmuuid}]
    /\ entry' = [entry EXCEPT !.fetches = @ + 1]
    /\ cycle' = CountFetch(cycle, vmuuid, due)

\* the callback of hget(..., 'reaped')
CheckReapedReply ==
    /\ state = "checkReaped"
    /\ Called("reaped")
    /\ LET cbs == After(Callback("reaped"))
           val == hget(vmuuid, "reaped")
       IN \/ /\ ToCheckError(cbs)
             /\ seen' = [seen EXCEPT !.reaped = Failed]
             /\ out' = NoOut
          \/ /\ seen' = [seen EXCEPT !.reaped = Reply(val)]
             /\ IF val # Null
                THEN /\ state' = state
                     /\ callbacks' = With(cbs, "last_recs")
                     /\ out' = NoOut
                     /\ UNCHANGED <<entry, cycle>>
                ELSE ToFetchAndPush(cbs, TRUE)
             /\ UNCHANGED retries
    /\ UNCHANGED <<remaining, vmuuid, onTimer, sleep, listCursor, store,
                   deleted, blocked, run>>
    /\ UNCHANGED <<env, armed, reapTime>>

\* the test without its last disjunct
DisposableButEmpty(err2, val2) == err2 \/ val2 = Null

\* if (err2 || val2 === null || val2 === '{}')
Disposable(err2, val2) == err2 \/ val2 = Null \/ val2 = {EmptyRecs}

\* the callback of hget(..., 'last_recs')
CheckLastRecsReply ==
    /\ state = "checkReaped"
    /\ Called("last_recs")
    /\ \E err2 \in BOOLEAN :
         LET cbs == After(Callback("last_recs"))
             val2 == IF err2 THEN Null ELSE hget(vmuuid, "last_recs")
         IN /\ seen' = [seen EXCEPT
                          !.last_recs = IF err2 THEN Failed ELSE Reply(val2)]
            /\ IF Disposable(err2, val2)
               THEN /\ store' = del(store, vmuuid)
                    /\ out' = [NoOut EXCEPT !.del = {vmuuid}]
                    /\ state' = "next"
                    /\ callbacks' = cbs
                    /\ entry' = [entry EXCEPT !.writes = @ + 1]
                    /\ deleted' = deleted \cup {vmuuid}
                    /\ cycle' = IF err2 THEN FailCycle(cycle) ELSE cycle
               ELSE /\ ToFetchAndPush(cbs, FALSE)
                    /\ UNCHANGED <<store, deleted>>
    /\ UNCHANGED <<remaining, vmuuid, retries, onTimer, sleep, listCursor,
                   blocked, run>>
    /\ UNCHANGED <<env, armed, reapTime>>

-----------------------------------------------------------------------------
(* state_fetchAndPush *)

\* a full sink treated as one that accepted
WhenFullSleeps == "sleep"

\* a full sink treated as a failed check
WhenFullRetries == "checkError"

\* the state entered when the push returned false
WhenFull == "sleep_full"

\* the callback of this.fetch
FetchReply ==
    /\ state = "fetchAndPush"
    /\ Called("fetch")
    /\ LET cbs == After(Callback("fetch"))
       IN \/ /\ ToCheckError(cbs)
             /\ out' = NoOut
             /\ UNCHANGED <<store, armed, blocked>>
          \/ \E obj \in VmObjs, ret \in BOOLEAN :
               /\ obj.uuid = vmuuid
               /\ callbacks' = cbs
               /\ armed' = sleep
               /\ cycle' = CountPush(cycle, vmuuid)
               /\ blocked' = ~ret
               /\ UNCHANGED retries
               /\ IF ret = FALSE
                  THEN /\ state' = WhenFull
                       /\ out' = [NoOut EXCEPT !.push = {obj}, !.ret = ret]
                       /\ entry' = [entry EXCEPT !.pushes = @ + 1]
                       /\ UNCHANGED store
                  ELSE /\ state' = "sleep"
                       /\ IF Terminal(obj)
                          THEN /\ store' = hset(store, vmuuid, "reaped", "yes")
                               /\ out' = [NoOut EXCEPT !.push = {obj},
                                                       !.ret = ret,
                                                       !.hset = {vmuuid}]
                               /\ entry' = [entry EXCEPT !.pushes = @ + 1,
                                                         !.writes = @ + 1]
                          ELSE /\ UNCHANGED store
                               /\ out' = [NoOut EXCEPT !.push = {obj},
                                                       !.ret = ret]
                               /\ entry' = [entry EXCEPT !.pushes = @ + 1]
    /\ UNCHANGED <<remaining, vmuuid, onTimer, sleep, listCursor, seen,
                   deleted, run>>
    /\ UNCHANGED <<env, reapTime>>

-----------------------------------------------------------------------------
(* state_sleep_full, state_sleep *)

\* the timer of state_sleep_full
SleepFullTimer ==
    /\ state = "sleep_full"
    /\ armed' = 0
    /\ sleep' = Double(sleep)
    /\ run' = Adjusted(run, "full", sleep)
    /\ state' = "next"
    /\ blocked' = FALSE
    /\ out' = NoOut
    /\ UNCHANGED <<remaining, vmuuid, retries, onTimer, listCursor, callbacks,
                   store, seen, entry, cycle, deleted>>
    /\ UNCHANGED <<env, reapTime>>

\* the timer of state_sleep
SleepTimer ==
    /\ state = "sleep"
    /\ armed' = 0
    /\ state' = "next"
    /\ out' = NoOut
    /\ UNCHANGED <<remaining, vmuuid, retries, onTimer, sleep, listCursor,
                   callbacks, store, history>>
    /\ UNCHANGED <<env, reapTime>>

-----------------------------------------------------------------------------
(* Environment *)

\* a function passed without S.callback: the late reply of the last_recs
\* read runs the code of line 254
LateReplyRuns ==
    /\ state # "next"
    /\ \E c \in BagToSet(Late(callbacks)) :
         /\ callbacks' = callbacks (-) SetToBag({c})
         /\ IF c.op = "last_recs"
            THEN /\ store' = del(store, vmuuid)
                 /\ out' = [NoOut EXCEPT !.del = {vmuuid}, !.late = {c.op}]
                 /\ deleted' = deleted \cup {vmuuid}
            ELSE /\ out' = [NoOut EXCEPT !.late = {c.op}]
                 /\ UNCHANGED <<store, deleted>>
    /\ UNCHANGED <<state, remaining, vmuuid, retries, onTimer, sleep,
                   listCursor, seen, entry, cycle, blocked, run>>
    /\ UNCHANGED <<env, armed, reapTime>>

\* a closure made by S.callback for a handle that is no longer valid is
\* called: it returns without calling its function
LateReply ==
    /\ state # "next"
    /\ \E c \in BagToSet(Late(callbacks)) :
         /\ callbacks' = callbacks (-) SetToBag({c})
         /\ out' = [NoOut EXCEPT !.late = {c.op}]
    /\ UNCHANGED <<state, remaining, vmuuid, retries, onTimer, sleep,
                   listCursor, store, history>>
    /\ UNCHANGED <<env, armed, reapTime>>

\* ReaperStream.prototype.setReapTime: the assertion throws unless
\* 0 < v < 24*3600
SetReapTime ==
    /\ state # "next"
    /\ \E v \in ReapTimeArgs :
         reapTime' = IF v > 0 /\ v < 24 * 3600 * 1000 THEN v ELSE reapTime
    /\ out' = NoOut
    /\ UNCHANGED <<state, remaining, vmuuid, retries, onTimer, sleep,
                   listCursor, armed, callbacks, store, history>>
    /\ UNCHANGED env

-----------------------------------------------------------------------------

vars == <<state, remaining, vmuuid, retries, onTimer, sleep, listCursor,
          reapTime, armed, callbacks, store, extraKey, lateKept, out, seen, entry,
          cycle, deleted, blocked, run>>

Next ==
    \/ Start
    \/ Wake
    \/ Read
    \/ IdleTimer
    \/ ListVmsReply
    \/ ListVmsTimeout
    \/ ListErrorTimer
    \/ StateNext
    \/ CheckErrorTimer
    \/ CheckTimeout
    \/ CheckLastVisitedReply
    \/ CheckReapedReply
    \/ CheckLastRecsReply
    \/ FetchReply
    \/ SleepFullTimer
    \/ SleepTimer
    \/ LateReply
    \/ SetReapTime

Spec == Init /\ [][Next]_vars

SpecThrottle == InitThrottle /\ [][Next]_vars

\* Timers fire and the entry code of state_next runs; a scan pass that
\* reaches the end of the keyspace is not put off for ever.
Fairness ==
    /\ WF_vars(StateNext)
    /\ WF_vars(ListErrorTimer)
    /\ WF_vars(CheckTimeout)
    /\ WF_vars(CheckErrorTimer)
    /\ WF_vars(SleepFullTimer)
    /\ WF_vars(SleepTimer)
    /\ SF_vars(ListVmsReply /\ state' = "next")

SpecLate == InitLate /\ [][Next]_vars

SpecLive == InitLive /\ [][Next]_vars /\ Fairness

-----------------------------------------------------------------------------
(* Properties *)

\* the reply of the last last_visit read
SeenLastVisit == seen.last_visit.st = "ok" /\ seen.last_visit.val # Null

\* the last last_visit read returned a value that the machine took as fresh:
\* one with now - last_visit <= reapTime, or one that is no number
SeenFresh == SeenLastVisit /\ seen.fresh

\* the last reaped read found the marker, found none
SeenMarked == seen.reaped.st = "ok" /\ seen.reaped.val # Null
SeenUnmarked == seen.reaped.st = "ok" /\ seen.reaped.val = Null

\* the last last_recs read returned null or '{}'
SeenNoRecs ==
    seen.last_recs.st = "ok" /\ seen.last_recs.val \in {Null, {EmptyRecs}}

\* C1: a delete of vm:<id> is issued only after the reaper has read the
\* reaped marker as present and last_recs for that id as absent or '{}', in
\* every execution, those whose reads fail or time out included.
DeleteOnlyAfterNoRecsRead ==
    out.del # {} => SeenMarked /\ SeenNoRecs

\* C2 as claimed: when the last_visit read returns a fresh value the machine
\* goes to next, and in the handling of that worklist entry it has issued no
\* fetch, no push and no store write or delete.
FreshEntryUntouched ==
    SeenFresh =>
        /\ state = "next"
        /\ entry.fetches = 0 /\ entry.pushes = 0 /\ entry.writes = 0

\* C2 as amended: when the last_visit read returns a fresh value the machine
\* goes to next at once; that attempt reads nothing more and issues no fetch,
\* and the handling of that worklist entry has issued no push and no store
\* write or delete.
FreshReadSkips ==
    SeenFresh =>
        /\ state = "next"
        /\ out = NoOut
        /\ seen.reaped = Unread /\ seen.last_recs = Unread
        /\ entry.pushes = 0 /\ entry.writes = 0

\* a read of a time no more than reapTime ago skipped the entry
FreshSkipped ==
    /\ SeenFresh /\ state = "next" /\ entry.tries = 1
    /\ parseInt(Val(seen.last_visit.val)) # NaN

\* the fetched state is terminal, in the words of the claim
IsTerminal(obj) ==
    obj.state \in {"destroyed", "failed", "incomplete"}
        \/ obj.destroyed = {TRUE}

HasMarker(id) == id \in DOMAIN store /\ store[id].reaped = {"yes"}

\* C3 as claimed: when the vm pushed was overdue and unmarked, the marker is
\* set if and only if the fetched state is terminal, whatever push returned.
MarkedIffTerminal ==
    \A obj \in out.push :
        SeenUnmarked =>
            /\ out.hset = {obj.uuid} <=> IsTerminal(obj)
            /\ HasMarker(obj.uuid) <=> IsTerminal(obj)

\* C3 as amended: the marker is set if and only if the fetched state is
\* terminal and the push did not return false.
MarkedIffTerminalAndAccepted ==
    \A obj \in out.push :
        SeenUnmarked =>
            /\ out.hset = {obj.uuid} <=> (IsTerminal(obj) /\ out.ret)
            /\ HasMarker(obj.uuid) <=> (IsTerminal(obj) /\ out.ret)

\* a terminal vm was pushed, accepted and marked
TerminalMarked ==
    \E obj \in out.push :
        SeenUnmarked /\ obj.state = "incomplete" /\ out.hset = {obj.uuid}

\* C4 as claimed: in a cycle whose store operations and fetches all succeed,
\* a vm read as overdue and unmarked is fetched exactly once and pushed
\* exactly once between the start of the cycle and its return to idle (and
\* no vm more than once).
FetchedAndPushedOnce ==
    cycle.ok =>
        \A id \in Ids :
            /\ cycle.fetches[id] <= 1
            /\ cycle.pushes[id] <= cycle.fetches[id]
            /\ (id \in cycle.due /\ state = "idle") =>
                   cycle.fetches[id] = 1 /\ cycle.pushes[id] = 1

\* C4 as amended: in a cycle whose store operations and fetches all succeed
\* and whose scan lists no key twice, a vm read as overdue and unmarked is
\* fetched exactly once and pushed exactly once between the start of the
\* cycle and its return to idle (and no vm more than once).
ListedOnceFetchedOnce ==
    (cycle.ok /\ cycle.once) =>
        \A id \in Ids :
            /\ cycle.fetches[id] <= 1
            /\ cycle.pushes[id] <= cycle.fetches[id]
            /\ (id \in cycle.due /\ state = "idle") =>
                   cycle.fetches[id] = 1 /\ cycle.pushes[id] = 1

\* a cycle without failure whose scan listed no key twice is back in idle,
\* having fetched and pushed both vms
BothPushedOnce ==
    /\ state = "idle"
    /\ cycle.ok /\ cycle.once
    /\ cycle.due = Ids
    /\ \A id \in Ids : cycle.pushes[id] = 1

\* C5: a vm read as marked and with last_recs null or '{}' is deleted and the
\* machine goes to next with no fetch and no push; a deleted vm has no key
\* again and is never fetched: a later check of it reads no last_visit and
\* goes to next.
DisposedAndForgotten ==
    /\ (SeenMarked /\ SeenNoRecs) =>
          /\ state = "next"
          /\ out = [NoOut EXCEPT !.del = {vmuuid}]
          /\ vmuuid \in deleted
          /\ entry.pushes = 0
    /\ \A id \in deleted :
          /\ id \notin DOMAIN store
          /\ id \notin out.fetch
          /\ \A obj \in out.push : obj.uuid # id
          /\ vmuuid = id =>
                state \notin {"checkReaped", "fetchAndPush", "sleep",
                              "sleep_full"}

\* a deleted vm came up again in the worklist and was skipped
DeletedSkipped ==
    /\ vmuuid \in deleted
    /\ state = "next"
    /\ seen.last_visit = Reply(Null)

\* C6: the throttle stays within [minSleep, maxSleep].
ThrottleInRange == minSleep <= sleep /\ sleep <= maxSleep

\* the throttle was doubled past maxSleep and capped, then halved
CappedThenHalved == sleep * 2 = maxSleep

\* C7: after a run of N sleep_full timer expiries from throttle v the throttle
\* is min(v * 2^N, maxSleep); after a run of N wakes in sleep from v it is
\* max(v / 2^N, minSleep).
ThrottleClosedForm ==
    /\ (run.kind = "full") =>
          sleep = IF run.base * 2 ^ run.n <= maxSleep
                  THEN run.base * 2 ^ run.n ELSE maxSleep
    /\ (run.kind = "wake") =>
          IF run.base >= minSleep * 2 ^ run.n
          THEN sleep * 2 ^ run.n = run.base
          ELSE sleep = minSleep

\* seven wakes in sleep from the cap, itself reached by sleep_full timer
\* expiries, have reached the floor
RunFromCap ==
    run.kind = "wake" /\ run.n = 7 /\ run.base = maxSleep
        /\ sleep = minSleep

\* C8: after a push returned false there is no push until the sleep_full
\* timer has expired or a wake has been received in sleep_full.
NoPushWhileBlocked ==
    /\ [](blocked => state = "sleep_full")
    /\ [][out'.push # {} => ~blocked]_vars

\* a push after a sleep_full timer expiry
PushAfterBackoff == out.push # {} /\ sleep = 2 * initSleep

\* C9: a retry of the same entry follows the first and the second failure of
\* a check; the third failure abandons the entry (checkError to next), so
\* checkLastVisited is entered at most 3 times per worklist entry.
RetryBudgetOfThree ==
    /\ [](entry.tries <= 3 /\ entry.fails <= 3 /\ entry.tries <= entry.fails + 1)
    /\ [][state = "checkError" /\ state' # "checkError" =>
             IF entry.fails < 3
             THEN /\ state' = "checkLastVisited"
                  /\ vmuuid' = vmuuid
                  /\ remaining' = remaining
                  /\ entry'.tries = entry.tries + 1
             ELSE state' = "next"]_vars

\* two checks failed and the third attempt fetched and pushed the vm
PushedOnThirdTry == entry.fails = 2 /\ entry.tries = 3 /\ entry.pushes = 1

\* C10: a cycle whose scan lists no vm key goes from listVms to next and to
\* idle: it enters no checking state and issues no fetch, no push and no
\* store write or delete.
EmptyScanGoesIdle ==
    ~cycle.listed =>
        /\ state \in {"idle", "listVms", "listError", "next"}
        /\ remaining = <<>>
        /\ out.fetch = {} /\ out.push = {} /\ out.hset = {} /\ out.del = {}
        /\ entry = NoEntry

\* the scan of a cycle has ended and no key matched
EmptyScanDone ==
    /\ ~extraKey /\ DOMAIN store = {}
    /\ ~cycle.listed /\ state = "next" /\ listCursor = 0

\* C11: in checkReaped an error or a timeout on the reaped read or on the
\* last_recs read sends the machine to checkError, and that attempt issues
\* no delete.
ReadFailureGoesToCheckError ==
    (seen.reaped = Failed \/ seen.last_recs = Failed) =>
        /\ state \in {"checkError", "next"}
        /\ entry.fails > 0
        /\ out.del = {}

\* the entry has used up its retry budget
Exhausted == entry.fails = RetryBudget

\* C12: when an entry is skipped because its retries are exhausted
\* (checkError to next), the reaper has issued no push, no marker write and
\* no delete in that entry, and the key it listed is still in the store unless
\* an earlier entry of the same id deleted it.
SkippedUntouched ==
    Exhausted =>
        /\ state \in {"checkError", "next"}
        /\ entry.pushes = 0 /\ entry.writes = 0
        /\ out.push = {} /\ out.hset = {} /\ out.del = {}
        /\ vmuuid \in DOMAIN store \/ vmuuid \in deleted

\* an entry whose three fetches failed has been skipped and its key is kept
SkippedAfterFetches ==
    /\ Exhausted /\ state = "next"
    /\ entry.fetches = RetryBudget
    /\ vmuuid \in DOMAIN store

\* self.sleep after one wake in sleep, in the words of the claim
HalvedAndFloored(s) == IF 2 * minSleep <= s THEN s \div 2 ELSE minSleep

\* C13: a wake in sleep causes no transition: it halves the throttle (floored
\* at minSleep) and leaves the machine in sleep with the timer armed on entry;
\* sleep is left only by that timer, to next, and the timer was armed with
\* the throttle value at entry, which later wakes only lower.
WakeInSleepOnlyHalves ==
    /\ [](state = "sleep" => armed >= sleep /\ armed <= maxSleep)
    /\ [][(state = "sleep" /\ (Wake \/ Read)) =>
             /\ state' = "sleep"
             /\ armed' = armed
             /\ sleep' = HalvedAndFloored(sleep)
             /\ UNCHANGED <<remaining, vmuuid, retries, listCursor, store>>]_vars
    /\ [][(state = "sleep" /\ state' # "sleep") =>
             /\ state' = "next"
             /\ sleep' = sleep
             /\ armed' = 0]_vars

\* three wakes have come in sleep and the timer armed at the cap still runs
WokenThriceInSleep ==
    state = "sleep" /\ armed = maxSleep /\ sleep * 8 = maxSleep

\* C14: the throttle changes only when the sleep_full timer expires or a wake
\* comes in sleep; a wake in sleep_full goes to next without changing it, and
\* entering idle (or any other state) leaves it as it is.
ThrottleChangedByTwoEvents ==
    /\ [][sleep' # sleep =>
             \/ SleepFullTimer
             \/ state = "sleep" /\ (Wake \/ Read)]_vars
    /\ [][(state = "sleep_full" /\ (Wake \/ Read)) =>
             state' = "next" /\ sleep' = sleep]_vars
    /\ [][state' # state => (sleep' = sleep \/ state = "sleep_full")]_vars

\* a cycle has ended and the next one has started with the throttle the
\* first one left
ThrottleCarriedOver ==
    /\ state = "listVms" /\ remaining = <<>>
    /\ sleep = 4 * initSleep

\* what a signal that is not listened for leaves as it is
Undisturbed ==
    UNCHANGED <<state, remaining, vmuuid, listCursor, retries, sleep, armed,
                callbacks, store>>

\* the states with a request in flight
Requesting == {"listVms", "checkLastVisited", "checkReaped", "fetchAndPush"}

\* C15: a start in a state other than idle and a wake in a state other than
\* sleep and sleep_full cause no transition and leave the worklist, the
\* current id, the cursor, the retry counter and the throttle unchanged; at
\* most one request of the machine is in flight at any time.
UnheardSignalsAreNoOps ==
    /\ [](/\ BagCardinality(callbacks (-) Late(callbacks)) <= 1
          /\ Outstanding # {} => state \in Requesting)
    /\ [][(state # "idle" /\ Start) => Undisturbed]_vars
    /\ [][(state \notin {"sleep", "sleep_full"} /\ Wake) => Undisturbed]_vars
    /\ [][(state \notin {"idle", "sleep", "sleep_full"} /\ Read) =>
             Undisturbed]_vars

\* a signal has come while the fetch of a cycle without failure was in
\* flight, and the fetch is still the one request in flight
SignalDuringFetch ==
    /\ state = "fetchAndPush" /\ cycle.ok
    /\ out = NoOut
    /\ callbacks = SetToBag({Callback("fetch")})
    /\ \A id \in DOMAIN store : store[id].last_visit = LongAgo

\* q is p with ids appended at its end
Extends(q, p) ==
    Len(p) <= Len(q) /\ \A i \in 1..Len(p) : q[i] = p[i]

\* C16: the worklist is a first-in first-out queue: a scan reply appends ids
\* at its end in the order of the reply, and an id is taken only from its
\* head, to be the one that enters checkLastVisited next; nothing else
\* changes it.
WorklistIsFifo ==
    /\ [][remaining' # remaining =>
             \/ /\ state = "listVms"
                /\ Extends(remaining', remaining)
                /\ \E keys \in ScanReplies :
                      remaining' = remaining \o Candidates(keys)
                /\ vmuuid' = vmuuid
             \/ /\ state = "next" /\ state' = "checkLastVisited"
                /\ remaining # <<>>
                /\ vmuuid' = remaining[1]
                /\ remaining' = SubSeq(remaining, 2, Len(remaining))]_vars
    /\ [][vmuuid' # vmuuid => remaining' # remaining]_vars
    /\ [][(state = "next" /\ state' = "checkLastVisited") =>
             (remaining # <<>> /\ vmuuid' = remaining[1]
                /\ Len(remaining') = Len(remaining) - 1)]_vars

\* vm:b was listed before vm:a, and in a cycle without failure a enters
\* checkLastVisited after b has been fetched
SecondAfterFirst ==
    /\ state = "checkLastVisited" /\ vmuuid = "a" /\ remaining = <<>>
    /\ cycle.ok /\ cycle.once
    /\ cycle.fetches["b"] = 1 /\ cycle.fetches["a"] = 0

\* C17: in every state other than idle a timer of the state can fire and
\* takes the machine out of the state, with no reply and no signal: listVms,
\* listError, checkLastVisited, checkReaped during either of its reads,
\* fetchAndPush, sleep, sleep_full and checkError.
TimeoutsExitEveryState ==
    /\ state = "listVms" => ENABLED (ListVmsTimeout /\ state' = "listError")
    /\ state = "listError" => ENABLED (ListErrorTimer /\ state' = "listVms")
    /\ state \in {"checkLastVisited", "checkReaped", "fetchAndPush"} =>
          ENABLED (CheckTimeout /\ state' = "checkError")
    /\ state = "checkError" =>
          ENABLED (CheckErrorTimer /\ state' \in {"checkLastVisited", "next"})
    /\ state = "sleep" => ENABLED (SleepTimer /\ state' = "next")
    /\ state = "sleep_full" => ENABLED (SleepFullTimer /\ state' = "next")
    /\ state = "next" => ENABLED StateNext

\* the timer of checkReaped has fired while the last_recs read was pending
TimedOutInSecondRead ==
    /\ state = "checkError"
    /\ seen.reaped = Reply({"yes"})
    /\ seen.last_recs = Failed

\* C18: under fairness of the timers, and of a scan pass that completes,
\* every cycle that has started returns to idle; in idle the worklist is
\* empty and the scan cursor is at the start of the keyspace.
CycleReturnsToIdle ==
    /\ [](state = "idle" => remaining = <<>> /\ listCursor = 0)
    /\ (state # "idle") ~> (state = "idle")

\* a cycle that listed vms is back in idle after a failure, a would-block
\* push that was backed off, and a delete
MixedCycleDone ==
    /\ state = "idle" /\ cycle.listed /\ ~cycle.ok
    /\ sleep = 2 * initSleep
    /\ deleted # {}

\* C19: when no scan pass of the cycle lists a key twice, an id is in the
\* worklist at most once and, once taken from it, is not in it again, also
\* when a scan pass fails and the scan restarts from the start of the
\* keyspace.
WorklistHasNoDuplicates ==
    cycle.once =>
        /\ \A i, j \in DOMAIN remaining : remaining[i] = remaining[j] => i = j
        /\ state \in {"checkLastVisited", "checkReaped", "fetchAndPush",
                      "checkError", "sleep", "sleep_full"} =>
              \A i \in DOMAIN remaining : remaining[i] # vmuuid

\* a closure of a state that was left is called, and no other closure is
\* made, called or dropped
LateConsumed ==
    \E c \in BagToSet(Late(callbacks)) :
        callbacks' = callbacks (-) SetToBag({c})

\* C20: a reply that comes after the machine has left the state that asked
\* for it causes no transition, no push, no marker write, no delete and no
\* change of the worklist, the retry counter or any other field.
LateRepliesHaveNoEffect ==
    [][LateConsumed =>
          /\ out'.late # {}
          /\ out' = [NoOut EXCEPT !.late = out'.late]
          /\ UNCHANGED <<state, remaining, vmuuid, retries, onTimer, sleep,
                         listCursor, armed, store, deleted>>]_vars

\* the fetch of the first attempt timed out; its reply has just come, while
\* the fetch of the second attempt is in flight
LateFetchReplyInRetry ==
    /\ state = "fetchAndPush" /\ entry.tries = 2 /\ entry.fetches = 2
    /\ out.late = {"fetch"}
    /\ callbacks = SetToBag({Callback("fetch")})

====
